---------------------------- MODULE Spec2Model ----------------------------
(***************************************************************************)
(* r-trace: a path tracer for spheres and planes.                          *)
(*                                                                         *)
(* The module models                                                       *)
(*   - the Hittable implementations Sphere::hit, Plane::hit and World::hit *)
(*     (geometry/mod.rs, geometry/world.rs),                               *)
(*   - the scene parser load_world (geometry/world.rs),                    *)
(*   - the integrator ray_color and the per-pixel driver of main           *)
(*     (main.rs).                                                          *)
(*                                                                         *)
(* f32 values are modelled as fixed-point numbers: the integer n stands    *)
(* for n / Scale.  Every arithmetic operation rounds its result to the     *)
(* grid (towards zero, so that rounding commutes with negation as it does  *)
(* for IEEE floats).  EPSILON (1e-5) is below the resolution of the grid   *)
(* and is modelled by the smallest positive grid value; f32::INFINITY is a *)
(* value above every t the model can compute.  A Ray has a direction d     *)
(* with dot(d, d) > 0.                                                     *)
(***************************************************************************)
EXTENDS Integers, Sequences, FiniteSets, TLC

(* Resolution of the fixed-point grid: Scale stands for 1.0. *)
Scale == 100

(* ------------------------------------------------------------------ *)
(* f32 arithmetic on the grid                                          *)
(* ------------------------------------------------------------------ *)

Abs(a) == IF a < 0 THEN -a ELSE a

Sgn(a) == IF a < 0 THEN -1 ELSE 1

(* integer quotient rounded towards zero; the operands are bound by *)
(* one-element sets, which evaluates each once                      *)
Trunc(a, b) ==
    CHOOSE q \in { Sgn(m) * Sgn(n) * (Abs(m) \div Abs(n)) : m \in { a }, n \in { b } } : TRUE

(* f32 literal num/den *)
Lit(num, den) == Trunc(num * Scale, den)

(* a * b *)
Mul(a, b) == Trunc(a * b, Scale)

(* a / b, b # 0 *)
Div(a, b) == Trunc(a * Scale, b)

RECURSIVE SqrtSearch(_, _, _)
(* the largest r in lo..hi with r * r <= n; mid is bound by a one-element *)
(* set, which evaluates it once                                           *)
SqrtSearch(n, lo, hi) ==
    IF lo >= hi THEN lo
    ELSE CHOOSE r \in { IF mid * mid <= n THEN SqrtSearch(n, mid, hi)
                        ELSE SqrtSearch(n, lo, mid - 1) :
                          mid \in { (lo + hi + 1) \div 2 } } : TRUE

(* f32::sqrt for a >= 0 *)
Sqrt(a) ==
    CHOOSE r \in { SqrtSearch(n, 0, IF n < 46340 THEN n ELSE 46340) :
                     n \in { a * Scale } } : TRUE

(* ------------------------------------------------------------------ *)
(* geometry/vec3.rs                                                    *)
(* ------------------------------------------------------------------ *)

Vec3(x, y, z) == [x |-> x, y |-> y, z |-> z]

(* Vec3 given in units of 1/den *)
VLit(x, y, z, den) == Vec3(Lit(x, den), Lit(y, den), Lit(z, den))

ZERO == Vec3(0, 0, 0)

J == Vec3(0, Scale, 0)

K == Vec3(0, 0, Scale)

VAdd(u, v) == Vec3(u.x + v.x, u.y + v.y, u.z + v.z)

VSub(u, v) == Vec3(u.x - v.x, u.y - v.y, u.z - v.z)

VMul(u, s) == Vec3(Mul(u.x, s), Mul(u.y, s), Mul(u.z, s))

VDiv(u, s) == Vec3(Div(u.x, s), Div(u.y, s), Div(u.z, s))

VNeg(u) == Vec3(-u.x, -u.y, -u.z)

dot(u, v) == Mul(u.x, v.x) + Mul(u.y, v.y) + Mul(u.z, v.z)

cross(u, v) ==
    Vec3(Mul(u.y, v.z) - Mul(u.z, v.y),
         Mul(u.z, v.x) - Mul(u.x, v.z),
         Mul(u.x, v.y) - Mul(u.y, v.x))

magnitude(u) == Sqrt(Mul(u.x, u.x) + Mul(u.y, u.y) + Mul(u.z, u.z))

normalize(u) == VDiv(u, magnitude(u))

(* ------------------------------------------------------------------ *)
(* geometry/mod.rs: Ray, HitInfo, Sphere, Plane                        *)
(* ------------------------------------------------------------------ *)

Ray(origin, direction) == [origin |-> origin, direction |-> direction]

HitInfo(t, normal, at) == [t |-> t, normal |-> normal, at |-> at]

(* Option<T>: None is the empty sequence, Some(v) the sequence <<v>> *)
None == << >>

Some(v) == << v >>

IsSome(o) == o # None

Unwrap(o) == o[1]

Sphere(center, radius) == [kind |-> "sphere", center |-> center, radius |-> radius]

Plane(point, normal) == [kind |-> "plane", point |-> point, normal |-> normal]

(* Sphere::hit that returns the larger root without testing it against the window *)
SphereHitSecondRootUnchecked(s, r, t_min, t_max) ==
    LET oc      == VSub(r.origin, s.center)
        a       == dot(r.direction, r.direction)
        half_b  == dot(oc, r.direction)
        c       == dot(oc, oc) - Mul(s.radius, s.radius)
        discrim == Mul(half_b, half_b) - Mul(a, c)
    IN  IF discrim < 0 THEN None
        ELSE LET t1 == Div(-half_b - Sqrt(discrim), a)
                 t2 == Div(-half_b + Sqrt(discrim), a)
                 t  == IF t1 < t_min \/ t1 > t_max THEN t2 ELSE t1
                 at == VAdd(r.origin, VMul(r.direction, t))
             IN  Some(HitInfo(t, VDiv(VSub(at, s.center), s.radius), at))

SphereHit(s, r, t_min, t_max) ==
    LET oc      == VSub(r.origin, s.center)
        a       == dot(r.direction, r.direction)
        half_b  == dot(oc, r.direction)
        c       == dot(oc, oc) - Mul(s.radius, s.radius)
        discrim == Mul(half_b, half_b) - Mul(a, c)
    IN  IF discrim < 0 THEN None
        ELSE LET t1 == Div(-half_b - Sqrt(discrim), a)
                 t2 == Div(-half_b + Sqrt(discrim), a)
             IN  IF t1 < t_min \/ t1 > t_max
                 THEN IF t2 < t_min \/ t2 > t_max
                      THEN None
                      ELSE LET at == VAdd(r.origin, VMul(r.direction, t2))
                           IN  Some(HitInfo(t2, VDiv(VSub(at, s.center), s.radius), at))
                 ELSE LET at == VAdd(r.origin, VMul(r.direction, t1))
                      IN  Some(HitInfo(t1, VDiv(VSub(at, s.center), s.radius), at))

PlaneHit(p, r, t_min, t_max) ==
    LET d == dot(p.normal, r.direction)
    IN  IF d = 0 THEN None
        ELSE LET t == Div(dot(VSub(p.point, r.origin), p.normal), d)
             IN  IF t <= t_min \/ t >= t_max THEN None
                 ELSE Some(HitInfo(t, p.normal, VAdd(r.origin, VMul(r.direction, t))))

(* dynamic dispatch of Hittable::hit through Box<dyn Hittable> *)
Hit(b, r, t_min, t_max) ==
    IF b.kind = "sphere" THEN SphereHit(b, r, t_min, t_max)
    ELSE PlaneHit(b, r, t_min, t_max)

(* ------------------------------------------------------------------ *)
(* Program constants                                                   *)
(* ------------------------------------------------------------------ *)

(* const EPSILON: f32 = 0.00001, the smallest positive grid value *)
EPSILON == 1

(* f32::INFINITY: above every t the model computes *)
INFINITY == 10000000

(* ------------------------------------------------------------------ *)
(* State                                                               *)
(* ------------------------------------------------------------------ *)

VARIABLES
    (* a call of World::hit(r, t_min, t_max) on self.objects *)
    ray, t_min, t_max, objects,
    idx,        \* position of the `for b in &self.objects` loop
    best_hi,    \* Option<HitInfo>
    new_hi,     \* what the last b.hit returned
    q_max,      \* the upper bound the last b.hit was given
    near_hi,    \* result of ray_color's inline loop on the same ray and list
    hpc         \* "loop", "done", "inline"

hitVars == << ray, t_min, t_max, objects, idx, best_hi, new_hi, q_max, near_hi, hpc >>

VARIABLES
    (* a call of load_world(input, aspect_ratio, focal_length, fov) *)
    input,      \* the lines `input.lines()` yields
    largs,      \* [aspect_ratio, focal_length, fov]
    lineno,     \* the lines taken from the iterator so far
    lobjects,   \* the local `objects`
    lcamera,    \* the local `camera`: Option<Camera>
    lresult     \* None while load_world runs, then Some(Ok(World)) or Some(Err)

loadVars == << input, largs, lineno, lobjects, lcamera, lresult >>

VARIABLES
    (* main: the arguments and the render loop *)
    width, height, samples, bounces,
    x, y,       \* the pixel the loops are at
    sample,     \* iterations of `for _ in 0..args.samples` done for this pixel
    color,      \* the local `color` of the pixel
    writes,     \* for every slot of buf, how many times it has been assigned
    pixel,      \* the Pixel last assigned to a slot of buf
    dpc,        \* "call": ray_color called on its own; "pixel", "done", "panic": main
    (* ray_color *)
    world,      \* the list h of surfaces
    stack,      \* the activations of ray_color, the innermost last
    ret,        \* Some(colour) when an activation has just returned
    queries,    \* calls of Hittable::hit made since the outermost call
    draws,      \* random::<f32>() calls of random_unit_ball since then, up to MaxDraws
    path        \* what each activation since the outermost call found

mainVars == << width, height, samples, bounces, x, y, sample, color, writes, pixel, dpc >>

colorVars == << world, stack, ret, queries, draws, path >>

vars == << hitVars, loadVars, mainVars, colorVars >>

(* ------------------------------------------------------------------ *)
(* geometry/world.rs: World::hit                                       *)
(* ------------------------------------------------------------------ *)

(* the bound the loop body passes to b.hit *)
UpperBound(best, tmax) == IF best = None THEN tmax ELSE Unwrap(best).t

(* loop body that keeps the first hit found instead of the new one *)
HitLoopKeepFirst(best, b, r, tmin, tmax) ==
    IF best = None THEN Hit(b, r, tmin, tmax) ELSE best

(* one iteration of `for b in &self.objects`: the new best_hi *)
HitLoop(best, b, r, tmin, tmax) ==
    LET n == Hit(b, r, tmin, UpperBound(best, tmax))
    IN  IF IsSome(n) THEN n ELSE best

RECURSIVE HitFrom(_, _, _, _, _, _)
HitFrom(objs, i, best, r, tmin, tmax) ==
    IF i > Len(objs) THEN best
    ELSE HitFrom(objs, i + 1, HitLoop(best, objs[i], r, tmin, tmax), r, tmin, tmax)

(* World::hit as a function of its inputs *)
WorldHit(objs, r, tmin, tmax) == HitFrom(objs, 1, None, r, tmin, tmax)

(* main.rs, ray_color: the inline nearest-hit loop over h *)
RECURSIVE NearestFrom(_, _, _, _)
NearestFrom(h, i, best, r) ==
    IF i > Len(h) THEN best
    ELSE CHOOSE res \in
           { NearestFrom(h, i + 1, next, r) :
               next \in UNION
                 { { IF IsSome(n) THEN n ELSE b :
                       n \in { IF b = None THEN Hit(h[i], r, EPSILON, INFINITY)
                               ELSE Hit(h[i], r, EPSILON, Unwrap(b).t) } } :
                     b \in { best } } } : TRUE

NearestHit(h, r) == NearestFrom(h, 1, None, r)

(* ------------------------------------------------------------------ *)
(* Inputs of the intersection model                                    *)
(* ------------------------------------------------------------------ *)

MaxObjects == 3

HitSurfaces ==
    { Sphere(VLit(0, 0, 3, 1), Lit(1, 1)),
      Sphere(VLit(0, 0, 6, 1), Lit(1, 1)),
      Sphere(VLit(0, 0, 0, 1), Lit(2, 1)),
      Plane(VLit(0, 0, 4, 1), VLit(0, 0, -1, 1)),
      Plane(VLit(0, -1, 0, 2), VLit(0, 1, 0, 1)) }

HitRays ==
    { Ray(VLit(0, 0, 0, 1), VLit(0, 0, 1, 1)),
      Ray(VLit(0, 0, 0, 1), VLit(0, 0, 2, 1)),
      Ray(VLit(0, 1, 0, 1), VLit(0, -1, 1, 1)) }

HitTMin == { EPSILON, Lit(2, 1) }

HitTMax == { Lit(4, 1), INFINITY }

SeqsUpTo(S, n) == UNION { [1..k -> S] : k \in 0..n }

(* the lists of at most n different members of S *)
DistinctSeqsUpTo(S, n) ==
    { q \in SeqsUpTo(S, n) : \A i, j \in 1..Len(q) : q[i] = q[j] => i = j }

HitInit ==
    /\ ray \in HitRays
    /\ t_min \in HitTMin
    /\ t_max \in HitTMax
    /\ objects \in DistinctSeqsUpTo(HitSurfaces, MaxObjects)
    /\ idx = 1
    /\ best_hi = None
    /\ new_hi = None
    /\ q_max = t_max
    /\ near_hi = None
    /\ hpc = "loop"

(* one iteration of the loop of World::hit *)
WorldHitStep ==
    /\ hpc = "loop"
    /\ idx <= Len(objects)
    /\ q_max' = UpperBound(best_hi, t_max)
    /\ new_hi' = Hit(objects[idx], ray, t_min, UpperBound(best_hi, t_max))
    /\ best_hi' = HitLoop(best_hi, objects[idx], ray, t_min, t_max)
    /\ idx' = idx + 1
    /\ UNCHANGED << ray, t_min, t_max, objects, near_hi, hpc >>
    /\ UNCHANGED << loadVars, mainVars, colorVars >>

(* the loop is over: World::hit returns best_hi *)
WorldHitReturn ==
    /\ hpc = "loop"
    /\ idx > Len(objects)
    /\ hpc' = "done"
    /\ UNCHANGED << ray, t_min, t_max, objects, idx, best_hi, new_hi, q_max, near_hi >>
    /\ UNCHANGED << loadVars, mainVars, colorVars >>

(* ray_color's inline loop on the same ray and list *)
InlineLoop ==
    /\ hpc = "done"
    /\ near_hi' = NearestHit(objects, ray)
    /\ hpc' = "inline"
    /\ UNCHANGED << ray, t_min, t_max, objects, idx, best_hi, new_hi, q_max >>
    /\ UNCHANGED << loadVars, mainVars, colorVars >>

HitNext == WorldHitStep \/ WorldHitReturn \/ InlineLoop

(* ------------------------------------------------------------------ *)
(* Camera (main.rs and geometry/world.rs)                              *)
(* ------------------------------------------------------------------ *)

(* std::f32::consts::PI *)
PI == Lit(314159, 100000)

(* f32::tan, by its series; the model calls it with |a| < PI/4 *)
Tan(a) ==
    LET a2 == Mul(a, a)
        a3 == Mul(a2, a)
        a5 == Mul(a3, a2)
        a7 == Mul(a5, a2)
    IN  a + Trunc(a3, 3) + Trunc(2 * a5, 15) + Trunc(17 * a7, 315)

Camera(eye, vertical, horizontal, upper_left) ==
    [eye |-> eye, vertical |-> vertical, horizontal |-> horizontal,
     upper_left |-> upper_left]

(* the basis Camera::new computes from the look vector *)
CameraBasis(eye, v_look, up, fov, aspect_ratio) ==
    LET fov_rads   == Div(Mul(fov, PI), Lit(180, 1))
        vh         == Mul(Mul(Abs(Tan(Div(fov_rads, Lit(2, 1)))), magnitude(v_look)),
                          Lit(2, 1))
        vw         == Mul(vh, aspect_ratio)
        vertical   == VMul(normalize(VSub(up,
                               VMul(v_look, Div(dot(up, v_look), dot(v_look, v_look))))),
                           vh)
        horizontal == VMul(VNeg(normalize(cross(vertical, v_look))), vw)
        upper_left == VSub(VSub(v_look, VMul(vertical, Lit(1, 2))),
                           VMul(horizontal, Lit(1, 2)))
    IN  Camera(eye, vertical, horizontal, upper_left)

(* world.rs Camera::new.  The parser model keeps a world Camera as the    *)
(* arguments it was constructed from, which determine its four fields.   *)
WorldCameraNew(eye, look_at, up, fov, aspect_ratio, focal_length) ==
    [eye |-> eye, look_at |-> look_at, up |-> up, fov |-> fov,
     aspect_ratio |-> aspect_ratio, focal_length |-> focal_length]

(* ------------------------------------------------------------------ *)
(* geometry/world.rs: load_world                                       *)
(* ------------------------------------------------------------------ *)

(* A line is a sequence of one-character strings.  Where a value is used  *)
(* several times it is bound by a one-element set, which evaluates it once. *)

Ok(v) == [ok |-> TRUE, val |-> v]

Err(kind, msg) == [ok |-> FALSE, kind |-> kind, msg |-> msg]

ParseError(msg) == Err("ParseError", msg)

DigitChars == << "0", "1", "2", "3", "4", "5", "6", "7", "8", "9" >>

IsDigit(c) == \E i \in 1..10 : DigitChars[i] = c

DigitVal(c) == (CHOOSE i \in 1..10 : DigitChars[i] = c) - 1

IsWhitespace(c) == c \in {" ", "\t"}

RECURSIVE Pow10(_)
Pow10(k) == IF k = 0 THEN 1 ELSE 10 * Pow10(k - 1)

(* the number a sequence of digits writes, read up to its i-th digit *)
RECURSIVE DigitsUpTo(_, _)
DigitsUpTo(ds, i) ==
    IF i = 0 THEN 0 ELSE 10 * DigitsUpTo(ds, i - 1) + DigitVal(ds[i])

DigitsVal(ds) == DigitsUpTo(ds, Len(ds))

(* str::parse::<f32> on the characters sign, digit and point: *)
(* [sign] digits [. digits] with at least one digit            *)
ParseF32(tok) ==
    LET signed == tok # << >> /\ tok[1] \in {"-", "+"}
        body   == IF signed THEN Tail(tok) ELSE tok
        dots   == { i \in 1..Len(body) : body[i] = "." }
        valid  == /\ \A i \in 1..Len(body) : IsDigit(body[i]) \/ body[i] = "."
                  /\ Cardinality(dots) <= 1
                  /\ \E i \in 1..Len(body) : IsDigit(body[i])
    IN  IF ~valid THEN ParseError("expected f32")
        ELSE LET dot_at == IF dots = {} THEN Len(body) + 1 ELSE CHOOSE i \in dots : TRUE
                 whole  == SubSeq(body, 1, dot_at - 1)
                 frac   == SubSeq(body, dot_at + 1, Len(body))
                 mag    == DigitsVal(whole) * Scale
                              + Trunc(DigitsVal(frac) * Scale, Pow10(Len(frac)))
             IN  Ok(IF signed /\ tok[1] = "-" THEN -mag ELSE mag)

(* the line up to its first '#': chars().position(..) and &line[0..n] *)
StripComment(line) ==
    LET hs == { i \in 1..Len(line) : line[i] = "#" }
    IN  IF hs = {} THEN line
        ELSE SubSeq(line, 1, (CHOOSE n \in hs : \A m \in hs : n <= m) - 1)

(* str::split_whitespace: the maximal runs of non-whitespace characters, *)
(* in the order of their first characters                                *)
WordStarts(line) ==
    { i \in 1..Len(line) : ~IsWhitespace(line[i]) /\ (i = 1 \/ IsWhitespace(line[i - 1])) }

WordEnd(line, first) ==
    CHOOSE e \in first..Len(line) :
        /\ \A j \in first..e : ~IsWhitespace(line[j])
        /\ e = Len(line) \/ IsWhitespace(line[e + 1])

SplitWhitespace(line) ==
    LET starts == WordStarts(line)
        nth(k) == CHOOSE f \in starts : Cardinality({ g \in starts : g < f }) = k - 1
    IN  [k \in 1..Cardinality(starts) |-> SubSeq(line, nth(k), WordEnd(line, nth(k)))]

(* consume::<f32> of the k-th word still to come; a missing word parses "" *)
consume(words, k) == IF k <= Len(words) THEN ParseF32(words[k]) ELSE ParseF32(<< >>)

(* the first n words consumed in order with `?`: Ok(values) or the first Err *)
ConsumeN(words, n) ==
    CHOOSE res \in
        { IF \A k \in 1..n : fields[k].ok
          THEN Ok([k \in 1..n |-> fields[k].val])
          ELSE fields[CHOOSE k \in 1..n :
                         ~fields[k].ok /\ \A m \in 1..(k - 1) : fields[m].ok] :
            fields \in { [k \in 1..n |-> consume(words, k)] } } : TRUE

(* parse_sphere that reads the radius from the first word again *)
parse_sphere_radius_slip(words) ==
    CHOOSE res \in
        { IF ~f.ok THEN f
          ELSE Ok(Sphere(Vec3(f.val[1], f.val[2], f.val[3]), f.val[1])) :
            f \in { ConsumeN(words, 4) } } : TRUE

parse_sphere(words) ==
    CHOOSE res \in
        { IF ~f.ok THEN f
          ELSE Ok(Sphere(Vec3(f.val[1], f.val[2], f.val[3]), f.val[4])) :
            f \in { ConsumeN(words, 4) } } : TRUE

parse_plane(words) ==
    CHOOSE res \in
        { IF ~f.ok THEN f
          ELSE IF Len(words) > 6 THEN ParseError("unexpected symbol")
          ELSE Ok(Plane(Vec3(f.val[1], f.val[2], f.val[3]),
                        Vec3(f.val[4], f.val[5], f.val[6]))) :
            f \in { ConsumeN(words, 6) } } : TRUE

(* parse_camera hands Camera::new its arguments in the order             *)
(* (eye, look_at, J, aspect_ratio, fov, focal_length)                    *)
parse_camera(words, aspect_ratio) ==
    CHOOSE res \in
        { IF ~f.ok THEN f
          ELSE Ok(WorldCameraNew(Vec3(f.val[1], f.val[2], f.val[3]),
                                 Vec3(f.val[4], f.val[5], f.val[6]),
                                 J, aspect_ratio, f.val[7], Some(f.val[8]))) :
            f \in { ConsumeN(words, 8) } } : TRUE

World(objs, camera) == [objects |-> objs, camera |-> camera]

(* the `match words.next()` that takes no offence at an unknown first word *)
MatchWordsSkipsUnknown(words, objs, camera, aspect_ratio) ==
    LET rest == IF words = << >> THEN << >> ELSE Tail(words)
    IN  IF words = << >> THEN Ok([objects |-> objs, camera |-> camera])
        ELSE IF words[1] = << "s" >>
        THEN CHOOSE res \in
                 { IF sphere.ok
                   THEN Ok([objects |-> Append(objs, sphere.val), camera |-> camera])
                   ELSE sphere : sphere \in { parse_sphere(rest) } } : TRUE
        ELSE IF words[1] = << "p" >>
        THEN CHOOSE res \in
                 { IF plane.ok
                   THEN Ok([objects |-> Append(objs, plane.val), camera |-> camera])
                   ELSE plane : plane \in { parse_plane(rest) } } : TRUE
        ELSE IF words[1] = << "c" >>
        THEN IF camera = None
             THEN CHOOSE res \in
                      { IF cam.ok
                        THEN Ok([objects |-> objs, camera |-> Some(cam.val)])
                        ELSE cam : cam \in { parse_camera(rest, aspect_ratio) } } : TRUE
             ELSE ParseError("Multiple camera definitions")
        ELSE Ok([objects |-> objs, camera |-> camera])

(* the match with a second camera line replacing the first camera *)
MatchWordsLastCameraWins(words, objs, camera, aspect_ratio) ==
    LET rest == IF words = << >> THEN << >> ELSE Tail(words)
    IN  IF words = << >> THEN Ok([objects |-> objs, camera |-> camera])
        ELSE IF words[1] = << "s" >>
        THEN CHOOSE res \in
                 { IF sphere.ok
                   THEN Ok([objects |-> Append(objs, sphere.val), camera |-> camera])
                   ELSE sphere : sphere \in { parse_sphere(rest) } } : TRUE
        ELSE IF words[1] = << "p" >>
        THEN CHOOSE res \in
                 { IF plane.ok
                   THEN Ok([objects |-> Append(objs, plane.val), camera |-> camera])
                   ELSE plane : plane \in { parse_plane(rest) } } : TRUE
        ELSE IF words[1] = << "c" >>
        THEN CHOOSE res \in
                 { IF cam.ok
                   THEN Ok([objects |-> objs, camera |-> Some(cam.val)])
                   ELSE IF camera = None THEN cam
                   ELSE Ok([objects |-> objs, camera |-> camera]) :
                     cam \in { parse_camera(rest, aspect_ratio) } } : TRUE
        ELSE ParseError("Unexpected symbol")

(* `match words.next()` in load_world: what the line's words do to *)
(* (objects, camera), or the error load_world returns              *)
MatchWords(words, objs, camera, aspect_ratio) ==
    LET rest == IF words = << >> THEN << >> ELSE Tail(words)
    IN  IF words = << >> THEN Ok([objects |-> objs, camera |-> camera])
        ELSE IF words[1] = << "s" >>
        THEN CHOOSE res \in
                 { IF sphere.ok
                   THEN Ok([objects |-> Append(objs, sphere.val), camera |-> camera])
                   ELSE sphere : sphere \in { parse_sphere(rest) } } : TRUE
        ELSE IF words[1] = << "p" >>
        THEN CHOOSE res \in
                 { IF plane.ok
                   THEN Ok([objects |-> Append(objs, plane.val), camera |-> camera])
                   ELSE plane : plane \in { parse_plane(rest) } } : TRUE
        ELSE IF words[1] = << "c" >>
        THEN IF camera = None
             THEN CHOOSE res \in
                      { IF cam.ok
                        THEN Ok([objects |-> objs, camera |-> Some(cam.val)])
                        ELSE cam : cam \in { parse_camera(rest, aspect_ratio) } } : TRUE
             ELSE ParseError("Multiple camera definitions")
        ELSE ParseError("Unexpected symbol")

(* the body of `while let Some(line) = lines.next()` *)
LoadLine(line, objs, camera, aspect_ratio) ==
    CHOOSE res \in { MatchWords(words, objs, camera, aspect_ratio) :
                        words \in { SplitWhitespace(StripComment(line)) } } : TRUE

(* the camera load_world falls back to when the input has no camera line *)
DefaultCamera(aspect_ratio, focal_length, fov) ==
    WorldCameraNew(ZERO, VMul(K, Lit(3, 1)), J,
                   IF fov = None THEN Lit(30, 1) ELSE Unwrap(fov),
                   aspect_ratio, focal_length)

(* ------------------------------------------------------------------ *)
(* Inputs of the parser model                                          *)
(* ------------------------------------------------------------------ *)

MaxLines == 3

(* the words of ws joined by single spaces *)
RECURSIVE Spaced(_)
Spaced(ws) ==
    IF ws = << >> THEN << >>
    ELSE IF Len(ws) = 1 THEN ws[1]
    ELSE ws[1] \o << " " >> \o Spaced(Tail(ws))

SceneLines ==
    { (* s 0 0 3 1 *)
      Spaced(<< <<"s">>, <<"0">>, <<"0">>, <<"3">>, <<"1">> >>),
      (* p 0 -1 0 0 1 0 *)
      Spaced(<< <<"p">>, <<"0">>, <<"-", "1">>, <<"0">>, <<"0">>, <<"1">>, <<"0">> >>),
      (* c 0 0 0 0 0 3 30 3 *)
      Spaced(<< <<"c">>, <<"0">>, <<"0">>, <<"0">>, <<"0">>, <<"0">>, <<"3">>,
                <<"3", "0">>, <<"3">> >>),
      (* the empty line *)
      << >>,
      (* # s 1 1 1 1 *)
      Spaced(<< <<"#">>, <<"s">>, <<"1">>, <<"1">>, <<"1">>, <<"1">> >>),
      (* <tab>s 1 0 3 .5 9 #p: leading whitespace, a word after the radius, a comment *)
      << "\t" >> \o Spaced(<< <<"s">>, <<"1">>, <<"0">>, <<"3">>, <<".", "5">>, <<"9">>,
                              <<"#", "p">> >>),
      (* x 1 2 3 *)
      Spaced(<< <<"x">>, <<"1">>, <<"2">>, <<"3">> >>),
      (* s 0 0 3 #1: the radius is missing *)
      Spaced(<< <<"s">>, <<"0">>, <<"0">>, <<"3">>, <<"#", "1">> >>),
      (* p 0 0 0 0 1 1x: the last field is no float *)
      Spaced(<< <<"p">>, <<"0">>, <<"0">>, <<"0">>, <<"0">>, <<"1">>, <<"1", "x">> >>),
      (* p 0 -1 0 0 1 0 7: a word after the normal *)
      Spaced(<< <<"p">>, <<"0">>, <<"-", "1">>, <<"0">>, <<"0">>, <<"1">>, <<"0">>,
                <<"7">> >>),
      (* c #x: a camera line without fields *)
      Spaced(<< <<"c">>, <<"#", "x">> >>) }

LoadArgs ==
    { [aspect_ratio |-> Lit(1, 1), focal_length |-> None, fov |-> None],
      [aspect_ratio |-> Lit(2, 1), focal_length |-> Some(Lit(3, 1)), fov |-> Some(Lit(40, 1))] }

LoadInit ==
    /\ input \in SeqsUpTo(SceneLines, MaxLines)
    /\ largs \in LoadArgs
    /\ lineno = 0
    /\ lobjects = << >>
    /\ lcamera = None
    /\ lresult = None

(* one iteration of the loop over the lines that ends in Ok *)
LoadNextLine ==
    /\ lresult = None
    /\ lineno < Len(input)
    /\ \E step \in { LoadLine(input[lineno + 1], lobjects, lcamera, largs.aspect_ratio) } :
           /\ step.ok
           /\ lobjects' = step.val.objects
           /\ lcamera' = step.val.camera
           /\ lineno' = lineno + 1
    /\ UNCHANGED << input, largs, lresult >>
    /\ UNCHANGED << hitVars, mainVars, colorVars >>

(* one iteration that returns an Err from load_world *)
LoadFail ==
    /\ lresult = None
    /\ lineno < Len(input)
    /\ \E step \in { LoadLine(input[lineno + 1], lobjects, lcamera, largs.aspect_ratio) } :
           /\ ~step.ok
           /\ lresult' = Some(step)
           /\ lineno' = lineno + 1
    /\ UNCHANGED << input, largs, lobjects, lcamera >>
    /\ UNCHANGED << hitVars, mainVars, colorVars >>

(* the iterator is exhausted: the default camera, then Ok(World) *)
LoadReturn ==
    /\ lresult = None
    /\ lineno = Len(input)
    /\ lresult' = Some(Ok(World(lobjects,
                      IF lcamera = None
                      THEN DefaultCamera(largs.aspect_ratio, largs.focal_length, largs.fov)
                      ELSE Unwrap(lcamera))))
    /\ UNCHANGED << input, largs, lineno, lobjects, lcamera >>
    /\ UNCHANGED << hitVars, mainVars, colorVars >>

(* ------------------------------------------------------------------ *)
(* color.rs                                                            *)
(* ------------------------------------------------------------------ *)

Color(r, g, b) == [r |-> r, g |-> g, b |-> b]

BLACK == Color(0, 0, 0)

WHITE == Color(Scale, Scale, Scale)

LIGHT_BLUE == Color(Lit(25, 100), Lit(5, 10), Scale)

CAdd(c1, c2) == Color(c1.r + c2.r, c1.g + c2.g, c1.b + c2.b)

(* Color * f32 *)
CMulF(c, f) == Color(Mul(c.r, f), Mul(c.g, f), Mul(c.b, f))

(* f32 * Color *)
FMulC(f, c) == Color(Mul(f, c.r), Mul(f, c.g), Mul(f, c.b))

(* Color / f32 *)
CDivF(c, f) == Color(Div(c.r, f), Div(c.g, f), Div(c.b, f))

blend(c1, c2, factor) == CAdd(CMulF(c1, factor), CMulF(c2, Scale - factor))

(* ------------------------------------------------------------------ *)
(* main.rs: Pixel, Camera                                              *)
(* ------------------------------------------------------------------ *)

(* `f as u8`: towards zero, saturating *)
AsU8(f) ==
    LET n == Trunc(f, Scale)
    IN  IF n < 0 THEN 0 ELSE IF n > 255 THEN 255 ELSE n

(* impl From<Color> for Pixel *)
PixelFrom(c) ==
    [r |-> AsU8(Mul(Lit(255, 1), Sqrt(c.r))),
     g |-> AsU8(Mul(Lit(255, 1), Sqrt(c.g))),
     b |-> AsU8(Mul(Lit(255, 1), Sqrt(c.b)))]

(* main.rs Camera::new *)
CameraNew(eye, look_at, up, fov, aspect_ratio) ==
    CameraBasis(eye, VSub(look_at, eye), up, fov, aspect_ratio)

(* Camera::ray *)
CameraRay(c, u, v) ==
    Ray(c.eye, VAdd(VAdd(c.upper_left, VMul(c.horizontal, u)),
                    VMul(c.vertical, Scale - v)))

(* ------------------------------------------------------------------ *)
(* main.rs: ray_color                                                  *)
(* ------------------------------------------------------------------ *)

MaxDraws == 6

(* the values random::<f32>() is drawn from in the driver *)
RandomF32 == { 0, Lit(1, 2) }

(* the vectors one round of random_unit_ball's loop can draw; the last *)
(* lies outside the unit ball                                          *)
BallSamples ==
    { VLit(0, 1, 0, 2), VLit(1, -1, 1, 2), VLit(9, 9, 9, 10) }

(* an activation of ray_color: its arguments, where it is, its locals *)
Frame(r, depth) ==
    [r |-> r, depth |-> depth, pc |-> "enter", hi |-> None,
     sampled |-> ZERO, direction |-> ZERO]

Top == stack[Len(stack)]

Pop == SubSeq(stack, 1, Len(stack) - 1)

SetTop(f) == [stack EXCEPT ![Len(stack)] = f]

(* one entry of path *)
Found(kind, normal, direction, sky) ==
    [kind |-> kind, normal |-> normal, direction |-> direction, sky |-> sky]

(* the colour of a ray that hits nothing *)
Sky(r) ==
    LET unit_dir == normalize(r.direction)
        t        == Mul(Lit(1, 2), unit_dir.y + Scale)
    IN  blend(LIGHT_BLUE, WHITE, t)

(* direction as ray_color uses it: negated when it points into the surface *)
Flip(normal, direction) ==
    IF dot(normal, direction) < 0 THEN VNeg(direction) ELSE direction

(* the return value with the cosine factor alone *)
AttenuateNoAlbedo(normal, direction, rec) == FMulC(dot(normal, direction), rec)

(* 0.8 * dot(hi.normal, direction) * ray_color(&new_r, h, depth - 1) *)
Attenuate(normal, direction, rec) ==
    FMulC(Mul(Lit(8, 10), dot(normal, direction)), rec)

Saturate(n) == IF n > MaxDraws THEN MaxDraws ELSE n

(* depth == 0: return Color::BLACK, after querying the surfaces all the same *)
RayColorBaseQueries ==
    /\ stack # << >>
    /\ Top.pc = "enter"
    /\ Top.depth = 0
    /\ stack' = Pop
    /\ ret' = Some(BLACK)
    /\ queries' = queries + Len(world)
    /\ path' = Append(path, Found("base", ZERO, ZERO, BLACK))
    /\ UNCHANGED << world, draws >>
    /\ UNCHANGED << hitVars, loadVars, mainVars >>

(* depth == 0: return Color::BLACK *)
RayColorBase ==
    /\ stack # << >>
    /\ Top.pc = "enter"
    /\ Top.depth = 0
    /\ stack' = Pop
    /\ ret' = Some(BLACK)
    /\ path' = Append(path, Found("base", ZERO, ZERO, BLACK))
    /\ UNCHANGED << world, queries, draws >>
    /\ UNCHANGED << hitVars, loadVars, mainVars >>

(* depth > 0 and the loop over h leaves best_hi = Some(hi) *)
RayColorHit ==
    /\ stack # << >>
    /\ Top.pc = "enter"
    /\ Top.depth > 0
    /\ IsSome(NearestHit(world, Top.r))
    /\ stack' = SetTop([Top EXCEPT !.pc = "sample", !.hi = NearestHit(world, Top.r)])
    /\ queries' = queries + Len(world)
    /\ UNCHANGED << world, ret, draws, path >>
    /\ UNCHANGED << hitVars, loadVars, mainVars >>

(* depth > 0 and the loop over h leaves best_hi = None: the sky *)
RayColorMiss ==
    /\ stack # << >>
    /\ Top.pc = "enter"
    /\ Top.depth > 0
    /\ NearestHit(world, Top.r) = None
    /\ stack' = Pop
    /\ ret' = Some(Sky(Top.r))
    /\ queries' = queries + Len(world)
    /\ path' = Append(path, Found("miss", ZERO, ZERO, Sky(Top.r)))
    /\ UNCHANGED << world, draws >>
    /\ UNCHANGED << hitVars, loadVars, mainVars >>

(* random_unit_ball: a round of the loop whose v has dot(v, v) >= 1.0 *)
RandomReject ==
    /\ stack # << >>
    /\ Top.pc = "sample"
    /\ \E v \in BallSamples : ~(dot(v, v) < Scale)
    /\ draws' = Saturate(draws + 3)
    /\ UNCHANGED << world, stack, ret, queries, path >>
    /\ UNCHANGED << hitVars, loadVars, mainVars >>

(* random_unit_ball returns v; ray_color calls itself on the bounce ray   *)
(* with depth instead of depth - 1                                        *)
RandomAcceptKeepsDepth ==
    /\ stack # << >>
    /\ Top.pc = "sample"
    /\ \E v \in BallSamples :
          /\ dot(v, v) < Scale
          /\ LET hi        == Unwrap(Top.hi)
                 direction == Flip(hi.normal, v)
                 new_r     == Ray(hi.at, direction)
             IN  /\ stack' = Append(SetTop([Top EXCEPT !.pc = "wait", !.sampled = v,
                                                       !.direction = direction]),
                                    Frame(new_r, Top.depth))
                 /\ path' = Append(path, Found("hit", hi.normal, direction, BLACK))
    /\ draws' = Saturate(draws + 3)
    /\ UNCHANGED << world, ret, queries >>
    /\ UNCHANGED << hitVars, loadVars, mainVars >>

(* random_unit_ball returns v; ray_color flips it and calls itself on the *)
(* bounce ray with depth - 1                                              *)
RandomAccept ==
    /\ stack # << >>
    /\ Top.pc = "sample"
    /\ \E v \in BallSamples :
          /\ dot(v, v) < Scale
          /\ LET hi        == Unwrap(Top.hi)
                 direction == Flip(hi.normal, v)
                 new_r     == Ray(hi.at, direction)
             IN  /\ stack' = Append(SetTop([Top EXCEPT !.pc = "wait", !.sampled = v,
                                                       !.direction = direction]),
                                    Frame(new_r, Top.depth - 1))
                 /\ path' = Append(path, Found("hit", hi.normal, direction, BLACK))
    /\ draws' = Saturate(draws + 3)
    /\ UNCHANGED << world, ret, queries >>
    /\ UNCHANGED << hitVars, loadVars, mainVars >>

(* the recursive call has returned: return the attenuated colour *)
RayColorReturn ==
    /\ stack # << >>
    /\ Top.pc = "wait"
    /\ IsSome(ret)
    /\ ret' = Some(Attenuate(Unwrap(Top.hi).normal, Top.direction, Unwrap(ret)))
    /\ stack' = Pop
    /\ UNCHANGED << world, queries, draws, path >>
    /\ UNCHANGED << hitVars, loadVars, mainVars >>

(* ------------------------------------------------------------------ *)
(* main.rs: main                                                       *)
(* ------------------------------------------------------------------ *)

MaxWidth == 2

MaxHeight == 2

SampleCounts == { 1, 2 }

BounceCounts == { 1, 2 }

(* the scene main builds: s1, s2, p *)
MainWorld ==
    << Sphere(VLit(-6, 0, 30, 10), Lit(5, 10)),
       Sphere(VLit(6, 0, 30, 10), Lit(5, 10)),
       Plane(VLit(0, -5, 0, 10), J) >>

(* the camera main builds with the default --fov 30 and --focal-length 3 *)
MainCamera ==
    CameraNew(J, VMul(K, Lit(3, 1)), J, Lit(30, 1), Div(width * Scale, height * Scale))

(* the depth main passes to ray_color, without the + 1 *)
MainDepthNoPlusOne == bounces

(* the depth main passes to ray_color *)
MainDepth == bounces + 1

(* the index of pixel (x, y), column-major *)
PixelIndexColumnMajor == x * height + y

(* let idx = (y * width + x) as usize *)
PixelIndex == y * width + x

(* buf.len(): vec![..; (width * height) as usize] *)
BufLen == width * height

MainInit ==
    /\ width \in 1..MaxWidth
    /\ height \in 1..MaxHeight
    /\ samples \in SampleCounts
    /\ bounces \in BounceCounts
    /\ x = 0
    /\ y = 0
    /\ sample = 0
    /\ color = BLACK
    /\ writes = [i \in 0..(BufLen - 1) |-> 0]
    /\ pixel = [r |-> 0, g |-> 0, b |-> 0]
    /\ dpc = "pixel"
    /\ world = MainWorld
    /\ stack = << >>
    /\ ret = None
    /\ queries = 0
    /\ draws = 0
    /\ path = << >>

(* one iteration of `for _ in 0..args.samples` up to the call of ray_color *)
SampleStart ==
    /\ dpc = "pixel"
    /\ sample < samples
    /\ stack = << >>
    /\ ret = None
    /\ \E ju, jv \in RandomF32 :
          stack' = << Frame(CameraRay(MainCamera,
                                      Div(x * Scale + ju, width * Scale),
                                      Div(y * Scale + jv, height * Scale)),
                            MainDepth) >>
    /\ queries' = 0
    /\ draws' = 0
    /\ path' = << >>
    /\ UNCHANGED << world, ret >>
    /\ UNCHANGED << width, height, samples, bounces, x, y, sample, color, writes, pixel, dpc >>
    /\ UNCHANGED << hitVars, loadVars >>

(* ray_color has returned to main: color = color + .. *)
SampleEnd ==
    /\ dpc = "pixel"
    /\ stack = << >>
    /\ IsSome(ret)
    /\ color' = CAdd(color, Unwrap(ret))
    /\ sample' = sample + 1
    /\ ret' = None
    /\ path' = << >>
    /\ queries' = 0
    /\ draws' = 0
    /\ UNCHANGED << world, stack >>
    /\ UNCHANGED << width, height, samples, bounces, x, y, writes, pixel, dpc >>
    /\ UNCHANGED << hitVars, loadVars >>

(* buf[idx] = (color / samples).into(), and the loops move to the next pixel; *)
(* an index outside buf panics                                               *)
PixelWrite ==
    /\ dpc = "pixel"
    /\ sample = samples
    /\ stack = << >>
    /\ ret = None
    /\ IF PixelIndex < BufLen
       THEN /\ writes' = [writes EXCEPT ![PixelIndex] = @ + 1]
            /\ pixel' = PixelFrom(CDivF(color, samples * Scale))
            /\ color' = BLACK
            /\ sample' = 0
            /\ x' = IF x + 1 < width THEN x + 1 ELSE 0
            /\ y' = IF x + 1 < width THEN y ELSE y + 1
            /\ dpc' = IF x + 1 < width \/ y + 1 < height THEN "pixel" ELSE "done"
       ELSE /\ dpc' = "panic"
            /\ UNCHANGED << x, y, sample, color, writes, pixel >>
    /\ UNCHANGED << width, height, samples, bounces >>
    /\ UNCHANGED << colorVars, hitVars, loadVars >>

(* ------------------------------------------------------------------ *)
(* Inputs of the integrator model: ray_color called on its own         *)
(* ------------------------------------------------------------------ *)

MaxDepth == 2

ColorRays ==
    { Ray(VLit(0, 1, 0, 1), VLit(0, -1, 3, 1)),
      Ray(VLit(0, 0, 0, 1), VLit(-6, 0, 30, 10)),
      Ray(VLit(0, 0, 0, 1), VLit(0, 1, 1, 1)) }

ColorWorlds ==
    { << >>,
      << Plane(VLit(0, -5, 0, 10), J) >>,
      << Plane(VLit(0, -5, 0, 10), J), Sphere(VLit(-6, 0, 30, 10), Lit(5, 10)) >>,
      MainWorld }

ColorInit ==
    /\ world \in ColorWorlds
    /\ \E r \in ColorRays, depth \in 0..MaxDepth : stack = << Frame(r, depth) >>
    /\ ret = None
    /\ queries = 0
    /\ draws = 0
    /\ path = << >>
    /\ width = 1
    /\ height = 1
    /\ samples = 1
    /\ bounces = 1
    /\ x = 0
    /\ y = 0
    /\ sample = 0
    /\ color = BLACK
    /\ writes = [i \in 0..0 |-> 0]
    /\ pixel = [r |-> 0, g |-> 0, b |-> 0]
    /\ dpc = "call"

(* ------------------------------------------------------------------ *)
(* The parts of the state a specification does not use                 *)
(* ------------------------------------------------------------------ *)

HitIdle ==
    /\ ray = Ray(ZERO, K)
    /\ t_min = 0
    /\ t_max = 0
    /\ objects = << >>
    /\ idx = 1
    /\ best_hi = None
    /\ new_hi = None
    /\ q_max = 0
    /\ near_hi = None
    /\ hpc = "idle"

LoadIdle ==
    /\ input = << >>
    /\ largs = [aspect_ratio |-> Scale, focal_length |-> None, fov |-> None]
    /\ lineno = 0
    /\ lobjects = << >>
    /\ lcamera = None
    /\ lresult = Some(ParseError("idle"))

MainIdle ==
    /\ width = 1
    /\ height = 1
    /\ samples = 1
    /\ bounces = 1
    /\ x = 0
    /\ y = 0
    /\ sample = 0
    /\ color = BLACK
    /\ writes = [i \in 0..0 |-> 0]
    /\ pixel = [r |-> 0, g |-> 0, b |-> 0]
    /\ dpc = "idle"
    /\ world = << >>
    /\ stack = << >>
    /\ ret = None
    /\ queries = 0
    /\ draws = 0
    /\ path = << >>

LoadNext == LoadNextLine \/ LoadFail \/ LoadReturn

ColorNext ==
    \/ RayColorBase
    \/ RayColorHit
    \/ RayColorMiss
    \/ RandomReject
    \/ RandomAccept
    \/ RayColorReturn

MainNext == SampleStart \/ SampleEnd \/ PixelWrite \/ ColorNext

(* ------------------------------------------------------------------ *)
(* Specifications                                                      *)
(* ------------------------------------------------------------------ *)

InitHit == HitInit /\ LoadIdle /\ MainIdle

InitLoad == LoadInit /\ HitIdle /\ MainIdle

InitColor == ColorInit /\ HitIdle /\ LoadIdle

InitMain == MainInit /\ HitIdle /\ LoadIdle

(* World::hit and the surfaces' hit on every ray, window and list of the inputs *)
SpecHit == InitHit /\ [][HitNext]_vars

(* load_world on every input of at most MaxLines lines *)
SpecLoad == InitLoad /\ [][LoadNext]_vars

(* ray_color called on its own with every ray, list and depth of the inputs *)
SpecColor == InitColor /\ [][ColorNext]_vars

(* ray_color as a running program: an activation that can take a step    *)
(* takes it, and the loop of random_unit_ball, whose every round can draw *)
(* a v with dot(v, v) < 1.0, does not draw rejected ones for ever         *)
ColorFairness ==
    /\ WF_vars(RayColorBase)
    /\ WF_vars(RayColorHit)
    /\ WF_vars(RayColorMiss)
    /\ WF_vars(RayColorReturn)
    /\ WF_vars(RandomAccept)

SpecColorLive == InitColor /\ [][ColorNext]_vars /\ ColorFairness

(* main's render loop, with the scene and the camera main builds *)
SpecMain == InitMain /\ [][MainNext]_vars

(* ------------------------------------------------------------------ *)
(* Properties                                                          *)
(* ------------------------------------------------------------------ *)

(* the t of an Option<HitInfo> *)
TOf(o) == IF o = None THEN None ELSE Some(Unwrap(o).t)

(* the t of every surface of objs that has a hit in the window *)
HitTs(objs, r, tmin, tmax) ==
    { Unwrap(Hit(objs[i], r, tmin, tmax)).t :
        i \in { j \in 1..Len(objs) : IsSome(Hit(objs[j], r, tmin, tmax)) } }

SetMin(S) == CHOOSE m \in S : \A n \in S : m <= n

IsNearest(res, objs, r, tmin, tmax) ==
    LET ts == HitTs(objs, r, tmin, tmax)
    IN  IF ts = {} THEN res = None
        ELSE IsSome(res) /\ Unwrap(res).t = SetMin(ts)

Perms(n) == { p \in [1..n -> 1..n] : \A i, j \in 1..n : p[i] = p[j] => i = j }

Permuted(objs, p) == [i \in 1..Len(objs) |-> objs[p[i]]]

(* C1: World::hit returns a hit whose t is the minimum of the surfaces'   *)
(* hits inside the window, nothing only when no surface has one, and the  *)
(* same t for every permutation of the list; so does the inline loop of   *)
(* ray_color for the window (EPSILON, INFINITY).                          *)
C1_NearestHit ==
    /\ hpc = "done" =>
          /\ IsNearest(best_hi, objects, ray, t_min, t_max)
          /\ \A p \in Perms(Len(objects)) :
                TOf(WorldHit(Permuted(objects, p), ray, t_min, t_max)) = TOf(best_hi)
    /\ hpc = "inline" =>
          /\ IsNearest(near_hi, objects, ray, EPSILON, INFINITY)
          /\ \A p \in Perms(Len(objects)) :
                TOf(NearestHit(Permuted(objects, p), ray)) = TOf(near_hi)

(* two surfaces hit in the window, the farther one first in the list, and *)
(* World::hit has returned the nearer one's t                             *)
C1_Witness ==
    /\ hpc = "inline"
    /\ \E i, j \in 1..Len(objects) :
          /\ i < j
          /\ IsSome(Hit(objects[i], ray, t_min, t_max))
          /\ IsSome(Hit(objects[j], ray, t_min, t_max))
          /\ Unwrap(Hit(objects[j], ray, t_min, t_max)).t
                < Unwrap(Hit(objects[i], ray, t_min, t_max)).t
          /\ IsSome(best_hi)
          /\ Unwrap(best_hi).t = Unwrap(Hit(objects[j], ray, t_min, t_max)).t
    /\ IsSome(near_hi)

(* C2: every HitInfo a surface returns lies in the closed window it was   *)
(* given, and every HitInfo World::hit holds lies in the caller's window, *)
(* also after surfaces were queried with a shrunk upper bound.            *)
C2_InWindow ==
    /\ IsSome(new_hi) =>
          /\ t_min <= Unwrap(new_hi).t
          /\ Unwrap(new_hi).t <= q_max
    /\ IsSome(best_hi) =>
          /\ t_min <= Unwrap(best_hi).t
          /\ Unwrap(best_hi).t <= t_max

(* World::hit has returned a hit that a sphere found under a shrunk bound, *)
(* after a plane had been hit                                              *)
C2_Witness ==
    /\ hpc = "done"
    /\ Len(objects) >= 2
    /\ objects[Len(objects)].kind = "sphere"
    /\ \E i \in 1..Len(objects) : objects[i].kind = "plane"
                                    /\ IsSome(Hit(objects[i], ray, t_min, t_max))
    /\ q_max < t_max
    /\ IsSome(new_hi)
    /\ best_hi = new_hi

(* C3: a HitInfo returned by Sphere::hit or Plane::hit lies strictly      *)
(* between the bounds it was given.                                       *)
C3_StrictWindow ==
    IsSome(new_hi) =>
       /\ t_min < Unwrap(new_hi).t
       /\ Unwrap(new_hi).t < q_max

(* the first word of the line, comment removed, is w: only whitespace   *)
(* before it, and whitespace, a '#' or the end of the line after it     *)
FirstWordIs(line, w) ==
    \E k \in 1..Len(line) :
       /\ k + Len(w) - 1 <= Len(line)
       /\ SubSeq(line, k, k + Len(w) - 1) = w
       /\ \A i \in 1..(k - 1) : IsWhitespace(line[i])
       /\ \/ k + Len(w) > Len(line)
          \/ IsWhitespace(line[k + Len(w)])
          \/ line[k + Len(w)] = "#"

(* a line with something other than whitespace before its comment *)
HasWords(line) ==
    \E k \in 1..Len(line) :
       /\ ~IsWhitespace(line[k]) /\ line[k] # "#"
       /\ \A i \in 1..(k - 1) : IsWhitespace(line[i])

IsParseError(res) == IsSome(res) /\ ~Unwrap(res).ok /\ Unwrap(res).kind = "ParseError"

IsWorld(res) == IsSome(res) /\ Unwrap(res).ok

(* C6: once load_world has taken a second line whose first word is `c`,  *)
(* it has returned Err(ParseError) and no World, whatever follows the `c` *)
(* and however many surfaces were parsed before.                          *)
C6_SecondCamera ==
    \A j \in 1..lineno :
       (FirstWordIs(input[j], << "c" >>) /\ \E i \in 1..(j - 1) : FirstWordIs(input[i], << "c" >>))
          => IsParseError(lresult) /\ ~IsWorld(lresult)

(* a surface and a camera were parsed, then a second `c` line without    *)
(* fields was taken and load_world returned the error                    *)
C6_Witness ==
    /\ lineno = 3
    /\ lobjects # << >>
    /\ IsSome(lcamera)
    /\ FirstWordIs(input[3], << "c" >>)
    /\ Len(SplitWhitespace(StripComment(input[3]))) = 1
    /\ IsParseError(lresult)
    /\ Unwrap(lresult).msg = "Multiple camera definitions"

(* the k-th numeric field of a record line is missing or is no float *)
BadField(line, k) ==
    LET words == SplitWhitespace(StripComment(line))
    IN  k + 1 > Len(words) \/ ~ParseF32(words[k + 1]).ok

(* a line load_world must refuse: an unknown first word, or a record with *)
(* a numeric field missing or malformed                                   *)
BadLine(line) ==
    /\ HasWords(line)
    /\ \/ ~(\E w \in { << "s" >>, << "p" >>, << "c" >> } : FirstWordIs(line, w))
       \/ FirstWordIs(line, << "s" >>) /\ \E k \in 1..4 : BadField(line, k)
       \/ FirstWordIs(line, << "p" >>) /\ \E k \in 1..6 : BadField(line, k)
       \/ FirstWordIs(line, << "c" >>) /\ \E k \in 1..8 : BadField(line, k)

(* C7: when load_world has returned and some line of the input has an    *)
(* unknown first word or a missing or malformed numeric field, the       *)
(* result is Err(ParseError), not a World.                               *)
C7_BadLineFails ==
    (IsSome(lresult) /\ \E j \in 1..Len(input) : BadLine(input[j]))
       => IsParseError(lresult) /\ ~IsWorld(lresult)

(* surfaces were parsed from the first lines, then a record with a       *)
(* missing field made load_world return the error                        *)
C7_Witness ==
    /\ lineno >= 2
    /\ Len(lobjects) = lineno - 1
    /\ FirstWordIs(input[lineno], << "s" >>)
    /\ BadField(input[lineno], 4)
    /\ IsParseError(lresult)
    /\ Unwrap(lresult).msg = "expected f32"

(* the numeric value of the k-th field of a record line *)
Field(line, k) == ParseF32(SplitWhitespace(StripComment(line))[k + 1]).val

(* the surface an `s` or `p` line describes *)
SurfaceOf(line) ==
    IF FirstWordIs(line, << "s" >>)
    THEN Sphere(Vec3(Field(line, 1), Field(line, 2), Field(line, 3)), Field(line, 4))
    ELSE Plane(Vec3(Field(line, 1), Field(line, 2), Field(line, 3)),
               Vec3(Field(line, 4), Field(line, 5), Field(line, 6)))

IsSurfaceLine(line) == FirstWordIs(line, << "s" >>) \/ FirstWordIs(line, << "p" >>)

(* the surfaces of the `s` and `p` lines among the first n, in input order *)
RECURSIVE SurfacesOf(_, _)
SurfacesOf(lines, n) ==
    IF n = 0 THEN << >>
    ELSE IF IsSurfaceLine(lines[n])
         THEN Append(SurfacesOf(lines, n - 1), SurfaceOf(lines[n]))
         ELSE SurfacesOf(lines, n - 1)

(* C8: when load_world has returned Ok(World), it has taken every line   *)
(* and the World's objects are exactly the surfaces of the `s` and `p`   *)
(* lines, in input order, with the fields of their lines.                *)
C8_WorldFromLines ==
    IsWorld(lresult) =>
       /\ lineno = Len(input)
       /\ Unwrap(lresult).val.objects = SurfacesOf(input, Len(input))

(* the input `s 0 0 3 1`, a comment line, `p 0 -1 0 0 1 0` has given     *)
(* Sphere(center (0,0,3), radius 1) and Plane(point (0,-1,0), normal     *)
(* (0,1,0))                                                              *)
C8_Witness ==
    /\ IsWorld(lresult)
    /\ Len(input) = 3
    /\ FirstWordIs(input[1], << "s" >>)
    /\ ~HasWords(input[2]) /\ input[2] # << >>
    /\ FirstWordIs(input[3], << "p" >>)
    /\ Unwrap(lresult).val.objects =
          << Sphere(Vec3(0, 0, 3 * Scale), Scale),
             Plane(Vec3(0, -Scale, 0), Vec3(0, Scale, 0)) >>


(* C4: an activation of ray_color with depth = 0 returns Color::BLACK    *)
(* in one step, without a call of Hittable::hit and without drawing a    *)
(* random number, whatever its ray and its list of surfaces.             *)
C4_DepthZeroBlack ==
    [][(stack # << >> /\ Top.pc = "enter" /\ Top.depth = 0)
          => /\ ret' = Some(BLACK)
             /\ stack' = Pop
             /\ queries' = queries
             /\ draws' = draws]_vars

(* ray_color was called with depth = 0 on a list with surfaces in it and *)
(* has returned black                                                    *)
C4_Witness ==
    /\ dpc = "call"
    /\ world # << >>
    /\ stack = << >>
    /\ path = << Found("base", ZERO, ZERO, BLACK) >>
    /\ ret = Some(BLACK)
    /\ queries = 0
    /\ draws = 0

(* the f32 that multiplies the colour of the bounce ray of path[k] *)
Factor(k) == Mul(Lit(8, 10), dot(path[k].normal, path[k].direction))

(* ray_color has just returned to main for a camera ray that hit a surface *)
CameraRayHit ==
    /\ dpc = "pixel"
    /\ stack = << >>
    /\ IsSome(ret)
    /\ path # << >>
    /\ path[1].kind = "hit"

(* C5 as claimed: with bounces = 1 a camera ray that hits a surface      *)
(* contributes black; with bounces = 2 such a ray whose bounce ray       *)
(* escapes to the sky contributes a colour that is not black (its cosine *)
(* factor being positive).                                               *)
C5_OneBounceBlack ==
    CameraRayHit =>
       /\ bounces = 1 => ret = Some(BLACK)
       /\ (bounces = 2 /\ path[2].kind = "miss" /\ Factor(1) > 0) => ret # Some(BLACK)

(* C5 amended: main calls ray_color with depth = bounces + 1, so with    *)
(* bounces = 1 the bounce ray of a camera ray that hits a surface is     *)
(* traced too.  The ray contributes black when the bounce ray hits a     *)
(* surface as well, and 0.8 * dot(normal, direction) times the sky       *)
(* colour of the bounce ray when it escapes, which is not black when the *)
(* factor is positive; with bounces = 2 an escaping bounce ray gives the *)
(* same colour.                                                          *)
C5_BounceBudget ==
    CameraRayHit =>
       /\ Len(path) >= 2
       /\ bounces = 1 =>
             /\ path[2].kind \in {"hit", "miss"}
             /\ path[2].kind = "hit" => ret = Some(BLACK)
       /\ path[2].kind = "miss" =>
             /\ ret = Some(FMulC(Factor(1), path[2].sky))
             /\ Factor(1) > 0 => ret # Some(BLACK)

(* with samples = 1 and bounces = 1 a camera ray has hit a surface, its   *)
(* bounce ray has escaped and ray_color has returned a colour that is not *)
(* black                                                                  *)
C5_Witness ==
    /\ CameraRayHit
    /\ samples = 1
    /\ bounces = 1
    /\ path[2].kind = "miss"
    /\ ret # Some(BLACK)

(* the slots of buf assigned so far are those of the pixels before (x, y) *)
(* in row-major order, top row first                                     *)
WrittenBefore(n) == \A i \in DOMAIN writes : writes[i] = (IF i < n THEN 1 ELSE 0)

(* C9: main assigns each slot of the width * height buffer at most once, *)
(* pixel (x, y) to index y * width + x, never an index outside the       *)
(* buffer, and after the loops every slot has been assigned once.        *)
C9_WriteOnce ==
    /\ DOMAIN writes = 0..(width * height - 1)
    /\ dpc # "panic"
    /\ dpc = "pixel" => x < width /\ y < height /\ WrittenBefore(y * width + x)
    /\ dpc = "done" => WrittenBefore(width * height)

(* the loops are over for a 2 x 2 image: all four slots assigned once *)
C9_Witness ==
    /\ dpc = "done"
    /\ width = 2
    /\ height = 2
    /\ \A i \in 0..3 : writes[i] = 1

(* C10 as claimed: on a hit with depth > 0 ray_color returns the colour  *)
(* of the bounce ray multiplied by dot(normal, bounce_direction) and by  *)
(* nothing else; bounce_direction is the sampled direction, negated when *)
(* its dot product with the normal was negative, so the factor is not    *)
(* negative.                                                             *)
C10_CosineOnly ==
    /\ [][(stack # << >> /\ Top.pc = "wait" /\ IsSome(ret))
             => ret' = Some(FMulC(dot(Unwrap(Top.hi).normal, Top.direction), Unwrap(ret)))]_vars
    /\ [](\A k \in 1..Len(stack) :
             stack[k].pc = "wait" =>
                /\ stack[k].direction =
                      (IF dot(Unwrap(stack[k].hi).normal, stack[k].sampled) < 0
                       THEN VNeg(stack[k].sampled) ELSE stack[k].sampled)
                /\ dot(Unwrap(stack[k].hi).normal, stack[k].direction) >= 0)

(* C10 amended: on a hit with depth > 0 ray_color returns the colour of  *)
(* the bounce ray multiplied by 0.8 * dot(normal, bounce_direction);     *)
(* bounce_direction is the sampled direction, negated when its dot       *)
(* product with the normal was negative, so the factor is not negative.  *)
C10_Attenuation ==
    /\ [][(stack # << >> /\ Top.pc = "wait" /\ IsSome(ret))
             => /\ ret' = Some(FMulC(Mul(Lit(8, 10),
                                         dot(Unwrap(Top.hi).normal, Top.direction)),
                                     Unwrap(ret)))
                /\ stack' = Pop]_vars
    /\ [](\A k \in 1..Len(stack) :
             stack[k].pc = "wait" =>
                /\ stack[k].direction =
                      (IF dot(Unwrap(stack[k].hi).normal, stack[k].sampled) < 0
                       THEN VNeg(stack[k].sampled) ELSE stack[k].sampled)
                /\ dot(Unwrap(stack[k].hi).normal, stack[k].direction) >= 0
                /\ Mul(Lit(8, 10), dot(Unwrap(stack[k].hi).normal, stack[k].direction)) >= 0)

(* ray_color, called with depth > 0, has hit a surface, negated the      *)
(* sampled direction, and returned a colour that is not black            *)
C10_Witness ==
    /\ dpc = "call"
    /\ stack = << >>
    /\ IsSome(ret)
    /\ ret # Some(BLACK)
    /\ Len(path) = 2
    /\ path[1].kind = "hit"
    /\ path[1].direction = VNeg(VLit(1, -1, 1, 2))
    /\ ret = Some(FMulC(Factor(1), path[2].sky))


(* the activations of ray_color carry depths that fall by one per call *)
DepthsFall == \A k \in 1..Len(stack) : stack[k].depth = stack[1].depth - (k - 1)

(* ray_color has returned to its outermost caller *)
Returned == stack = << >> /\ IsSome(ret)

(* C11: ray_color terminates when random_unit_ball does not reject for   *)
(* ever: a call that is running leads to its return; every recursive     *)
(* call is made with depth - 1, from an activation with depth > 0; a     *)
(* miss returns without a recursive call; and a call with depth d runs   *)
(* the nearest-hit loop at most d times, Len(h) calls of hit each, never *)
(* at depth 0.                                                           *)
C11_Terminates ==
    /\ (stack # << >>) ~> Returned
    /\ [](stack # << >> => DepthsFall /\ Len(stack) <= stack[1].depth + 1)
    /\ [][stack # << >> =>
             /\ Len(stack') > Len(stack) =>
                   /\ Top.depth > 0
                   /\ Len(stack') = Len(stack) + 1
                   /\ stack'[Len(stack')].depth = Top.depth - 1
             /\ (Top.pc = "enter" /\ Top.depth > 0 /\ NearestHit(world, Top.r) = None) =>
                   stack' = Pop /\ IsSome(ret')
             /\ queries' # queries =>
                   /\ Top.pc = "enter"
                   /\ Top.depth > 0
                   /\ queries' = queries + Len(world)
             /\ queries' <= Len(world) * stack[1].depth]_vars

(* ray_color, called with depth 2, has returned after a hit, a rejected  *)
(* round and an accepted round of random_unit_ball, and a miss of the    *)
(* bounce ray: two runs of the nearest-hit loop                          *)
C11_Witness ==
    /\ dpc = "call"
    /\ Returned
    /\ world # << >>
    /\ Len(path) = 2
    /\ path[1].kind = "hit"
    /\ path[2].kind = "miss"
    /\ draws = 6
    /\ queries = 2 * Len(world)

=============================================================================
